---- MODULE Spec2Model ----
(***************************************************************************)
(* Model of the playlist player's resume-state machinery:                  *)
(*   history.py  - the per-playlist history store (load / save /           *)
(*                 ensure_name over a primary, a .bak and a .tmp file);    *)
(*   player.py   - VLCGaplessPlayer: the session, its debounced history    *)
(*                 writer thread and the media engine it drives.           *)
(*                                                                         *)
(* Units.  Positions are whole seconds.  The clock of the writer is        *)
(* counted in sleep periods of the writer loop (time.sleep(0.5)).          *)
(***************************************************************************)
EXTENDS Integers, Sequences, FiniteSets, TLC

None == "None"

\* The playlist files the store is asked about.
Playlists == {"A", "B"}

(***************************************************************************)
(* JSON text and Python values.                                            *)
(*                                                                         *)
(* json.dump(data, f, indent=2) writes an opening brace line, one line per *)
(* member in the dict's insertion order, and a closing brace line.  A file *)
(* is modelled as that sequence of lines; a truncated file is a proper     *)
(* prefix of it.  A Python dict is the sequence of its members in          *)
(* insertion order.                                                        *)
(***************************************************************************)
NullV  == [t |-> "null", n |-> 0, s |-> "", l |-> <<>>]
Num(n) == [t |-> "num",  n |-> n, s |-> "", l |-> <<>>]
Str(s) == [t |-> "str",  n |-> 0, s |-> s,  l |-> <<>>]
Lst(l) == [t |-> "list", n |-> 0, s |-> "", l |-> l]

Member(k, v) == [key |-> k, val |-> v]
ObjOpen      == Member("{", NullV)
ObjClose     == Member("}", NullV)
ListOpen  == Member("[", NullV)
ListClose == Member("]", NullV)

PyDict(items) == [type |-> "dict", items |-> items]
PyList        == [type |-> "list", items |-> <<>>]

NoFile  == [exists |-> FALSE, bytes |-> <<>>]
File(b) == [exists |-> TRUE,  bytes |-> b]

HasKey(d, k) == \E i \in 1..Len(d) : d[i].key = k

\* dict.get(k, default)
Get(d, k, default) ==
    IF HasKey(d, k)
    THEN d[CHOOSE i \in 1..Len(d) : d[i].key = k].val
    ELSE default

\* d[k] = v : an existing key keeps its place, a new key goes last
DictSet(d, k, v) ==
    IF HasKey(d, k)
    THEN [i \in 1..Len(d) |-> IF d[i].key = k THEN Member(k, v) ELSE d[i]]
    ELSE Append(d, Member(k, v))

RECURSIVE DictFromLines(_, _)
DictFromLines(lines, d) ==
    IF lines = <<>> THEN d
    ELSE DictFromLines(Tail(lines), DictSet(d, Head(lines).key, Head(lines).val))

IsMemberLine(line) == line.key \notin {"{", "}", "[", "]"}

WellFormedObject(b) ==
    /\ Len(b) >= 2
    /\ b[1] = ObjOpen
    /\ b[Len(b)] = ObjClose
    /\ \A i \in 2..(Len(b) - 1) : IsMemberLine(b[i])

\* json.loads(text): ok = FALSE stands for the JSONDecodeError
json_loads(b) ==
    IF WellFormedObject(b)
    THEN [ok |-> TRUE, v |-> PyDict(DictFromLines(SubSeq(b, 2, Len(b) - 1), <<>>))]
    ELSE IF b = <<ListOpen, ListClose>>
         THEN [ok |-> TRUE, v |-> PyList]
         ELSE [ok |-> FALSE, v |-> PyDict(<<>>)]

json_dump(items) == <<ObjOpen>> \o items \o <<ObjClose>>

\* p.read_text() followed by json.loads(): fails on a missing file too
ReadJson(file) ==
    IF file.exists THEN json_loads(file.bytes)
    ELSE [ok |-> FALSE, v |-> PyDict(<<>>)]

\* The track locators, in the order sorted() gives them
Locators == <<"a", "b", "c">>
LocatorSet == {Locators[i] : i \in 1..Len(Locators)}
Rank(x) == CHOOSE i \in 1..Len(Locators) : Locators[i] = x

\* sorted(finished) for a set of track locators
RECURSIVE sorted(_)
sorted(S) ==
    IF S = {} THEN <<>>
    ELSE LET m == CHOOSE x \in S : \A y \in S : Rank(x) <= Rank(y)
         IN  <<m>> \o sorted(S \ {m})

(***************************************************************************)
(* history.py, one step at a time.                                         *)
(*                                                                         *)
(* A world w holds the three files of every playlist, the module global    *)
(* BAK_PATH (the playlist whose .bak file it names, or None) and the frame *)
(* fr of the history call in progress.  HStep(w) is the next step of that  *)
(* call when no I/O fails.                                                 *)
(***************************************************************************)
IdleFrame ==
    [op |-> "none", pc |-> "idle", pl |-> "A", ti |-> 0, pos |-> 0, fin |-> {},
     name |-> "", data |-> PyDict(<<>>), dst |-> None,
     outcome |-> "none", ret |-> PyDict(<<>>), exc |-> ""]

\* the frame at the first statement of load / save / ensure_name
CallFrame(op, pl, ti, pos, fin, name) ==
    [IdleFrame EXCEPT !.op = op, !.pl = pl, !.ti = ti, !.pos = pos,
                      !.fin = fin, !.name = name,
                      !.pc = IF op = "ensure_name" THEN "name_empty" ELSE "path"]

Returned(w, v) ==
    [w EXCEPT !.fr.pc = "done", !.fr.outcome = "returned", !.fr.ret = v]

Raised(w, e) ==
    [w EXCEPT !.fr.pc = "done", !.fr.outcome = "raised", !.fr.exc = e]

\* `return` inside load(): back in the caller of load
LoadReturn(w, v) ==
    IF w.fr.op = "load" THEN Returned(w, v)
    ELSE [w EXCEPT !.fr.data = v,
                   !.fr.pc = IF w.fr.op = "save" THEN "merge" ELSE "name_check"]

\* Mutant: save extends the stored finished list instead of replacing it
Merge_ExtendFinished(items, ti, pos, fin) ==
    DictSet(DictSet(DictSet(items, "track_index", Num(ti)),
                    "position", Num(pos)),
            "finished", Lst(Get(items, "finished", Lst(<<>>)).l \o sorted(fin)))

\* Mutant: save builds a fresh record instead of merging into the loaded one
Merge_Fresh(items, ti, pos, fin) ==
    <<Member("track_index", Num(ti)), Member("position", Num(pos)),
      Member("finished", Lst(sorted(fin)))>>

\* data["track_index"] = ...; data["position"] = ...; data["finished"] = sorted(...)
Merge(items, ti, pos, fin) ==
    DictSet(DictSet(DictSet(items, "track_index", Num(ti)),
                    "position", Num(pos)),
            "finished", Lst(sorted(fin)))

\* ensure_name: if not name: return
StepNameEmpty(w) ==
    IF w.fr.name = "" THEN Returned(w, PyDict(<<>>))
    ELSE [w EXCEPT !.fr.pc = "name_path"]

\* _path(pl): the global BAK_PATH now names pl's .bak file
StepPath(w, next) == [w EXCEPT !.BAK_PATH = w.fr.pl, !.fr.pc = next]

\* load: return json.loads(p.read_text())
StepRead(w) ==
    LET r == ReadJson(w.primary[w.fr.pl])
    IN  IF r.ok THEN LoadReturn(w, r.v)
        ELSE [w EXCEPT !.fr.pc = "bak_exists"]

\* load: if BAK_PATH and BAK_PATH.exists()
StepBakExists(w) ==
    IF w.BAK_PATH # None /\ w.bak[w.BAK_PATH].exists
    THEN [w EXCEPT !.fr.pc = "bak_read"]
    ELSE LoadReturn(w, PyDict(<<>>))

\* load: data = json.loads(BAK_PATH.read_text())
StepBakRead(w) ==
    LET r == IF w.BAK_PATH = None THEN [ok |-> FALSE, v |-> PyDict(<<>>)]
             ELSE ReadJson(w.bak[w.BAK_PATH])
    IN  IF r.ok
        THEN [w EXCEPT !.fr.data = r.v, !.fr.dst = w.BAK_PATH,
                       !.fr.pc = "repair_open"]
        ELSE LoadReturn(w, PyDict(<<>>))

\* Mutant: load returns the backup's data without copying it over the primary
StepRepairOpen_Skip(w) == LoadReturn(w, w.fr.data)

\* load: shutil.copy2(BAK_PATH, p) opens p for writing ...
StepRepairOpen(w) ==
    IF w.fr.dst # None /\ w.bak[w.fr.dst].exists
    THEN [w EXCEPT !.primary[w.fr.pl] = File(<<>>), !.fr.pc = "repair_write"]
    ELSE LoadReturn(w, PyDict(<<>>))

\* ... copies the bytes, and load returns the backup's data
StepRepairWrite(w) ==
    LoadReturn([w EXCEPT !.primary[w.fr.pl] = File(w.bak[w.fr.dst].bytes)],
               w.fr.data)

\* save: the three assignments into the loaded data
StepMerge(w) ==
    IF w.fr.data.type # "dict" THEN Raised(w, "TypeError")
    ELSE [w EXCEPT !.fr.data = PyDict(Merge(w.fr.data.items, w.fr.ti,
                                            w.fr.pos, w.fr.fin)),
                   !.fr.pc = "path2"]

\* ensure_name: if dat.get("display_name") == name: return; else set it
StepNameCheck(w) ==
    IF w.fr.data.type # "dict" THEN Raised(w, "AttributeError")
    ELSE IF Get(w.fr.data.items, "display_name", NullV) = Str(w.fr.name)
    THEN Returned(w, PyDict(<<>>))
    ELSE [w EXCEPT !.fr.data = PyDict(DictSet(w.fr.data.items, "display_name",
                                              Str(w.fr.name))),
                   !.fr.pc = "tmp_open"]

\* Mutant: the new record is written in place, over the primary itself
StepTmpOpen_InPlace(w) ==
    [w EXCEPT !.primary[w.fr.pl] = File(<<>>), !.tmp[w.fr.pl] = File(<<>>),
              !.fr.pc = "tmp_write"]

\* _atomic_write: tmp.open("w") creates or truncates the temp file
StepTmpOpen(w) ==
    [w EXCEPT !.tmp[w.fr.pl] = File(<<>>), !.fr.pc = "tmp_write"]

\* _atomic_write: json.dump, flush, fsync, close
StepTmpWrite(w) ==
    [w EXCEPT !.tmp[w.fr.pl] = File(json_dump(w.fr.data.items)),
              !.fr.pc = "bak_check"]

\* _atomic_write: if path.exists() and BAK_PATH
StepBakCheck(w) ==
    IF w.primary[w.fr.pl].exists /\ w.BAK_PATH # None
    THEN [w EXCEPT !.fr.dst = w.BAK_PATH, !.fr.pc = "bak_open"]
    ELSE [w EXCEPT !.fr.pc = "replace"]

\* _atomic_write: shutil.copy2(path, BAK_PATH) opens the backup for writing ...
StepBakOpen(w) ==
    IF w.primary[w.fr.pl].exists
    THEN [w EXCEPT !.bak[w.BAK_PATH] = File(<<>>), !.fr.dst = w.BAK_PATH,
                   !.fr.pc = "bak_write"]
    ELSE Raised(w, "FileNotFoundError")

\* Mutant: the backup is taken of the new temp file, not of the primary
StepBakWrite_FromTmp(w) ==
    [w EXCEPT !.bak[w.fr.dst] = File(w.tmp[w.fr.pl].bytes),
              !.fr.pc = "replace"]

\* ... and copies the primary's bytes into it
StepBakWrite(w) ==
    [w EXCEPT !.bak[w.fr.dst] = File(w.primary[w.fr.pl].bytes),
              !.fr.pc = "replace"]

\* _atomic_write: tmp.replace(path), the atomic rename
StepReplace(w) ==
    IF w.tmp[w.fr.pl].exists
    THEN Returned([w EXCEPT !.primary[w.fr.pl] = w.tmp[w.fr.pl],
                            !.tmp[w.fr.pl] = NoFile], PyDict(<<>>))
    ELSE Raised(w, "FileNotFoundError")

HStep(w) ==
    CASE w.fr.pc = "name_empty"   -> StepNameEmpty(w)
      [] w.fr.pc = "name_path"    -> StepPath(w, "path")
      [] w.fr.pc = "path"         -> StepPath(w, "read")
      [] w.fr.pc = "read"         -> StepRead(w)
      [] w.fr.pc = "bak_exists"   -> StepBakExists(w)
      [] w.fr.pc = "bak_read"     -> StepBakRead(w)
      [] w.fr.pc = "repair_open"  -> StepRepairOpen(w)
      [] w.fr.pc = "repair_write" -> StepRepairWrite(w)
      [] w.fr.pc = "merge"        -> StepMerge(w)
      [] w.fr.pc = "path2"        -> StepPath(w, "tmp_open")
      [] w.fr.pc = "name_check"   -> StepNameCheck(w)
      [] w.fr.pc = "tmp_open"     -> StepTmpOpen(w)
      [] w.fr.pc = "tmp_write"    -> StepTmpWrite(w)
      [] w.fr.pc = "bak_check"    -> StepBakCheck(w)
      [] w.fr.pc = "bak_open"     -> StepBakOpen(w)
      [] w.fr.pc = "bak_write"    -> StepBakWrite(w)
      [] w.fr.pc = "replace"      -> StepReplace(w)
      [] OTHER                    -> w

\* a call run up to one of the steps in stops, or to its end
RECURSIVE HRunUntil(_, _)
HRunUntil(w, stops) ==
    IF w.fr.pc \in ({"idle", "done"} \cup stops) THEN w
    ELSE HRunUntil(HStep(w), stops)

\* a whole call, run to its end with no other thread in between
RECURSIVE HRunToEnd(_)
HRunToEnd(w) == IF w.fr.pc \in {"idle", "done"} THEN w ELSE HRunToEnd(HStep(w))

\* What an interrupted write leaves: a proper prefix of the bytes.  json.loads
\* fails on every proper prefix alike, so two stand for all: nothing written,
\* and everything but the last line.
ProperPrefixes(b) ==
    {SubSeq(b, 1, n) : n \in {0, Len(b) - 1} \cap (0..(Len(b) - 1))}

\* the file a step is in the middle of writing, and the bytes it is writing
WritingTo(w) ==
    CASE w.fr.pc = "repair_write" -> "primary"
      [] w.fr.pc = "tmp_write"    -> "tmp"
      [] w.fr.pc = "bak_write"    -> "bak"
      [] OTHER                    -> None

WriteSource(w) ==
    CASE w.fr.pc = "repair_write" -> w.bak[w.fr.dst].bytes
      [] w.fr.pc = "tmp_write"    -> json_dump(w.fr.data.items)
      [] w.fr.pc = "bak_write"    -> w.primary[w.fr.pl].bytes
      [] OTHER                    -> <<>>

\* the files after the write in progress was cut short with the bytes b written
Torn(w, b) ==
    CASE WritingTo(w) = "primary" -> [w EXCEPT !.primary[w.fr.pl] = File(b)]
      [] WritingTo(w) = "tmp"     -> [w EXCEPT !.tmp[w.fr.pl] = File(b)]
      [] WritingTo(w) = "bak"     -> [w EXCEPT !.bak[w.fr.dst] = File(b)]
      [] OTHER                    -> w

TornWorlds(w) ==
    IF WritingTo(w) = None THEN {w}
    ELSE {Torn(w, b) : b \in ProperPrefixes(WriteSource(w))}

IOSteps == {"read", "bak_read", "repair_open", "repair_write",
            "tmp_open", "tmp_write", "bak_open", "bak_write", "replace"}

\* the step raises OSError: inside load() the except clauses swallow it,
\* in _atomic_write it propagates to the caller of save / ensure_name
AfterFault(w) ==
    CASE w.fr.pc = "read" -> [w EXCEPT !.fr.pc = "bak_exists"]
      [] w.fr.pc \in {"bak_read", "repair_open", "repair_write"} ->
            LoadReturn(w, PyDict(<<>>))
      [] OTHER -> Raised(w, "OSError")

FaultWorlds(w) == {AfterFault(t) : t \in TornWorlds(w)}

(***************************************************************************)
(* The state.                                                              *)
(***************************************************************************)
VARIABLES
    primary, bak, tmp,    \* the files <pl>.history.json, ....json.bak, ....tmp
    BAK_PATH,             \* history.BAK_PATH
    fr,                   \* the history call the store's caller is in
    hobs,                 \* observations of that call, for the properties
    _pl_path, playlist, idx, _finished,       \* VLCGaplessPlayer fields
    player,               \* self.player: None, or the locator it has open
    etime, eplaying, eseekable,               \* the engine's media player
    _next_pending, _last_tick_pos, _closed,
    _aout_mode,           \* self._aout_mode
    _instance,            \* self._instance: the options it was built with
    _pending,             \* the pending snapshot
    since_write,          \* time.monotonic() - self._last_write, capped
    wpc, wsnap,           \* the writer thread: where it is, its local snap
    wfr,                  \* the history.save call the writer thread is in
    upc,                  \* the call the UI thread is in the middle of
    obs                   \* observations of the session, for the properties

storeVars == <<primary, bak, tmp, BAK_PATH>>
callVars == <<fr, hobs>>
sessionVars == <<_pl_path, playlist, idx, _finished, player, etime, eplaying,
                 eseekable, _next_pending, _last_tick_pos, _closed,
                 _aout_mode, _instance>>
writerVars == <<_pending, since_write, wpc, wsnap>>
raceVars == <<wfr, upc>>
playerVars == <<sessionVars, writerVars, obs, raceVars>>
vars == <<storeVars, callVars, playerVars>>

(***************************************************************************)
(* player.py: VLCGaplessPlayer.                                            *)
(*                                                                         *)
(* A session state st is a record of the player's fields, the engine's     *)
(* media player, the writer's shared slot and the files (st.w, a world of  *)
(* the history store).  Every method is a function from the state before   *)
(* the call to the state after it; st.err names the exception the call was *)
(* left by, "ok" when it returned.  The field st.obs is no program state:  *)
(* it records what happened, for the properties.                           *)
(***************************************************************************)

\* player.WRITE_INTERVAL, the constructor's write_interval, in sleep periods
\* of the writer loop
WRITE_INTERVAL == 2

\* the longest track, and the largest position, in seconds
MaxPos == 3

\* tick() treats a position change above this many seconds as a jump
JumpThreshold == 2

\* tracks the engine cannot open
BadTracks == {"b"}

\* AOUT_OPTS: the engine options of each audio output mode
AOUT_OPTS ==
    [m \in {"default", "directsound", "wasapi_shared", "wasapi_exclusive"} |->
        CASE m = "default"          -> <<>>
          [] m = "directsound"      -> <<"--aout=directsound">>
          [] m = "wasapi_shared"    -> <<"--aout=wasapi">>
          [] m = "wasapi_exclusive" -> <<"--aout=wasapi", "--wasapi-exclusivemode">>]

\* vlc.Instance(opts) as _make_instance builds it for a mode; n tells the
\* instances built one after the other apart
Instance(mode, n) ==
    [ok |-> TRUE, opts |-> <<"--no-video", "--quiet">> \o AOUT_OPTS[mode],
     n |-> n]

\* what vlc.Instance(opts) returns when the library cannot build the instance
NoInstance(n) == [ok |-> FALSE, opts |-> <<>>, n |-> n]

\* the track lists the playlist source supplies for a playlist file
NoSnap == [set |-> FALSE, pl_path |-> None, track_index |-> 0,
           position |-> 0, finished |-> {}]

Min(a, b) == IF a <= b THEN a ELSE b
Max(a, b) == IF a >= b THEN a ELSE b
Abs(a) == IF a >= 0 THEN a ELSE -a

\* seq[i] for a Python list: negative i counts from the end
PyInRange(seq, i) == -Len(seq) <= i /\ i < Len(seq)
PyIndex(seq, i) == IF i >= 0 THEN seq[i + 1] ELSE seq[Len(seq) + i + 1]

\* position(): (self.player.get_time() or 0)/1000 if self.player else 0.0
position(st) == IF st.player # None THEN st.etime ELSE 0

_snapshot(st) ==
    [set |-> TRUE, pl_path |-> st._pl_path, track_index |-> st.idx,
     position |-> position(st), finished |-> st._finished]

\* what the properties need of a mark: whether a forced one is waiting for the
\* writer, the kind of the marks now waiting, how many background writes
\* followed the latest mark, and that a marked position is not on disk yet
MarkNotes(st, force) ==
    [st EXCEPT !.obs.forced = @ \/ force,
               !.obs.batch = IF force \/ st.obs.forced THEN "forced" ELSE "soft",
               !.obs.bgwrites = 0,
               !.obs.dirty = TRUE,
               !.obs.covering = FALSE]

\* Mutant: a soft mark resets the debounce timer too
_mark_dirty_AlwaysForce(st, force) ==
    [MarkNotes(st, force) EXCEPT !._pending = _snapshot(st),
                                 !.since_write = WRITE_INTERVAL]

\* Mutant: a forced mark leaves the debounce timer alone
_mark_dirty_NeverForce(st, force) ==
    [MarkNotes(st, force) EXCEPT !._pending = _snapshot(st)]

\* _mark_dirty: self._last_write = 0 makes the elapsed time now - 0, which is
\* at least the interval on a clock that has run that long
_mark_dirty(st, force) ==
    [MarkNotes(st, force) EXCEPT
        !._pending = _snapshot(st),
        !.since_write = IF force THEN WRITE_INTERVAL ELSE @]

\* the world after history.save(...) ran to its end; with fail, after its
\* temp file could not be opened
SaveWorld(w, snap, fail) ==
    LET start == [w EXCEPT !.fr = CallFrame("save", snap.pl_path,
                                            snap.track_index, snap.position,
                                            snap.finished, "")]
        From(upto) == IF fail /\ upto.fr.pc = "tmp_open" THEN AfterFault(upto)
                      ELSE HRunToEnd(start)
    IN  From(HRunUntil(start, {"tmp_open"}))

\* history.save(snap[...]) called from the session or the writer
history_save(st, snap, fail) ==
    LET After(w) ==
            [st EXCEPT !.w = [w EXCEPT !.fr = IdleFrame],
                       !.err = IF w.fr.outcome = "raised" THEN w.fr.exc ELSE "ok"]
    IN  After(SaveWorld(st.w, snap, fail))

flush_history(st, fail) ==
    LET snap == IF st._pl_path # None THEN _snapshot(st) ELSE NoSnap
        st1  == [st EXCEPT !._pending = NoSnap, !.obs.forced = FALSE,
                           !.obs.batch = "none"]
        Saved(st2) ==
            IF st2.err = "ok"
            THEN [st2 EXCEPT !.obs.dirty = FALSE,
                             !.obs.wstale = @ \/ (st.wpc = "save" /\ st.wsnap # snap)]
            ELSE st2
    IN  IF ~snap.set THEN st1
        ELSE Saved(history_save(st1, snap, fail))

\* self.player.stop(): the engine stops playing and is back at the start
stop_engine(st) ==
    [st EXCEPT !.eplaying = FALSE, !.eseekable = FALSE, !.etime = 0]

\* _set_media: a new media player on path, started; with a resume position,
\* up to ten short waits for the length (ready: it became known in time),
\* then set_time, which an engine that cannot seek yet drops; a forced mark
\* Mutant: the track is opened from its start, the resume position ignored
_set_media_NoResume(st, path, resume, ready) ==
    _mark_dirty([st EXCEPT !.player = path, !.etime = 0,
                           !.eplaying = path \notin BadTracks,
                           !.eseekable = FALSE], TRUE)

_set_media(st, path, resume, ready) ==
    LET canSeek == resume # 0 /\ ready /\ path \notin BadTracks
        st1 == [st EXCEPT !.player = path,
                          !.etime = IF canSeek THEN Min(resume, MaxPos) ELSE 0,
                          !.eplaying = path \notin BadTracks,
                          !.eseekable = canSeek]
    IN  IF ~st._instance.ok
        THEN [stop_engine(st) EXCEPT !.err = "AttributeError"]
        ELSE _mark_dirty(st1, TRUE)

\* load_playlist after the lines that flush and set _pl_path and playlist
LoadResume(st, ready) ==
    LET Loaded(w) ==
          LET hist == w.fr.ret
              st1  == [st EXCEPT !.w = [w EXCEPT !.fr = IdleFrame]]
              tiV  == Get(hist.items, "track_index", Num(0))
              posV == Get(hist.items, "position", Num(0))
              finV == Get(hist.items, "finished", Lst(<<>>))
              i    == Min(tiV.n, Max(0, Len(st.playlist) - 1))
              st2  == [st1 EXCEPT !.idx = i]
              st3  == [st2 EXCEPT !._finished = {finV.l[k] : k \in 1..Len(finV.l)},
                                  !.obs.resume =
                                      [ti |-> tiV.n, pos |-> posV.n,
                                       took |-> \/ posV.n = 0
                                                \/ /\ ready /\ PyInRange(st.playlist, i)
                                                   /\ PyIndex(st.playlist, i) \notin BadTracks]]
          IN  IF hist.type # "dict" THEN [st1 EXCEPT !.err = "AttributeError"]
              ELSE IF tiV.t # "num" THEN [st1 EXCEPT !.err = "TypeError"]
              ELSE IF posV.t = "str" THEN [st2 EXCEPT !.err = "ValueError"]
              ELSE IF posV.t # "num" THEN [st2 EXCEPT !.err = "TypeError"]
              ELSE IF finV.t # "list" THEN [st2 EXCEPT !.err = "TypeError"]
              ELSE IF ~PyInRange(st.playlist, i) THEN [st3 EXCEPT !.err = "IndexError"]
              ELSE _set_media(st3, PyIndex(st.playlist, i), posV.n, ready)
    IN  Loaded(HRunToEnd([st.w EXCEPT !.fr = CallFrame("load", st._pl_path,
                                                       0, 0, {}, "")]))

load_playlist(st, pl_path, tracks, ready, fail) ==
    LET Flushed(st1) ==
            IF st1.err = "ok"
            THEN LoadResume([st1 EXCEPT !._pl_path = pl_path,
                                        !.playlist = tracks], ready)
            ELSE st1
    IN  Flushed(flush_history(st, fail))

\* play(): self.player and self.player.play()
play(st) ==
    IF st.player # None
    THEN [st EXCEPT !.eplaying = st.player \notin BadTracks]
    ELSE st

\* Mutant: pause makes a soft mark
pause_Soft(st) ==
    IF st.player # None
    THEN _mark_dirty([st EXCEPT !.eplaying = ~@ /\ st.player \notin BadTracks],
                     FALSE)
    ELSE st

\* Mutant: pause marks whether or not a track is open
pause_Unguarded(st) ==
    _mark_dirty([st EXCEPT !.eplaying = ~@ /\ st.player \notin BadTracks /\ st.player # None],
                TRUE)

\* pause(): libVLC's pause() toggles; then a forced mark
pause(st) ==
    IF st.player # None
    THEN _mark_dirty([st EXCEPT !.eplaying = ~@ /\ st.player \notin BadTracks],
                     TRUE)
    ELSE st

stop(st) ==
    IF st.player # None
    THEN [st EXCEPT !.player = None, !.eplaying = FALSE, !.eseekable = FALSE,
                    !.etime = 0]
    ELSE st

seek(st, s, fail) ==
    IF st.player # None
    THEN LET st1 == [st EXCEPT !.etime = IF st.eseekable THEN s ELSE @]
         IN  flush_history(_mark_dirty(st1, TRUE), fail)
    ELSE st

\* _make_instance: self._instance = vlc.Instance(opts) with the options of
\* self._aout_mode; built: the library made the instance (vlc.Instance
\* returns None when it cannot)
_make_instance(st, built) ==
    [st EXCEPT !._instance = IF built THEN Instance(st._aout_mode, @.n + 1)
                             ELSE NoInstance(@.n + 1)]

\* Mutant: the mode is assigned before it is looked up
set_output_pre_AssignFirst(st, mode) ==
    IF mode \notin DOMAIN AOUT_OPTS
    THEN [st |-> [st EXCEPT !._aout_mode = mode, !.err = "ValueError"],
          restart |-> FALSE]
    ELSE [st |-> [st EXCEPT !._aout_mode = mode],
          restart |-> mode # st._aout_mode]

\* Mutant: the active mode is not recognised, the instance is rebuilt anyway
set_output_pre_AlwaysRestart(st, mode) ==
    IF mode \notin DOMAIN AOUT_OPTS
    THEN [st |-> [st EXCEPT !.err = "ValueError"], restart |-> FALSE]
    ELSE [st |-> [st EXCEPT !._aout_mode = mode], restart |-> TRUE]

\* set_output up to its call of _restart_instance; restart: it makes the call
set_output_pre(st, mode) ==
    IF mode \notin DOMAIN AOUT_OPTS
    THEN [st |-> [st EXCEPT !.err = "ValueError"], restart |-> FALSE]
    ELSE IF mode = st._aout_mode
    THEN [st |-> st, restart |-> FALSE]
    ELSE [st |-> [st EXCEPT !._aout_mode = mode], restart |-> TRUE]

\* Mutant: the track is recorded in place of those recorded before
_mark_finished_Only(st) ==
    IF st._pl_path # None /\ st.playlist # <<>> /\ PyInRange(st.playlist, st.idx)
    THEN [st EXCEPT !._finished = {PyIndex(st.playlist, st.idx)}]
    ELSE IF st._pl_path # None /\ st.playlist # <<>>
    THEN [st EXCEPT !.err = "IndexError"]
    ELSE st

_mark_finished(st) ==
    IF st._pl_path # None /\ st.playlist # <<>> /\ PyInRange(st.playlist, st.idx)
    THEN [st EXCEPT !._finished = @ \cup {PyIndex(st.playlist, st.idx)}]
    ELSE IF st._pl_path # None /\ st.playlist # <<>>
    THEN [st EXCEPT !.err = "IndexError"]
    ELSE st

next_track(st) ==
    LET st1 == _mark_finished(st)
    IN  IF st1.err = "ok" /\ st1.idx + 1 < Len(st1.playlist)
        THEN LET st2 == [st1 EXCEPT !.idx = @ + 1]
             IN  IF PyInRange(st2.playlist, st2.idx)
                 THEN _set_media(st2, PyIndex(st2.playlist, st2.idx), 0, FALSE)
                 ELSE [st2 EXCEPT !.err = "IndexError"]
        ELSE st1

prev_track(st) ==
    IF st.idx > 0
    THEN LET st1 == [st EXCEPT !.idx = @ - 1]
         IN  IF PyInRange(st1.playlist, st1.idx)
             THEN _set_media(st1, PyIndex(st1.playlist, st1.idx), 0, FALSE)
             ELSE [st1 EXCEPT !.err = "IndexError"]
    ELSE st

\* the second half of tick(): sample the position and mark
TickMark(st, fail) ==
    IF st.player # None /\ st._pl_path # None
    THEN LET cur == position(st)
             st1 == IF Abs(cur - st._last_tick_pos) > JumpThreshold
                    THEN flush_history(_mark_dirty(st, TRUE), fail)
                    ELSE _mark_dirty(st, FALSE)
         IN  IF st1.err = "ok" THEN [st1 EXCEPT !._last_tick_pos = cur] ELSE st1
    ELSE st

tick(st, fail) ==
    LET st1 == IF st._next_pending
               THEN next_track([st EXCEPT !._next_pending = FALSE])
               ELSE st
    IN  IF st1.err = "ok" THEN TickMark(st1, fail) ELSE st1

close(st, fail) == flush_history([st EXCEPT !._closed = TRUE], fail)

\* the locked part of one round of _writer_loop
WriterLocked(st) ==
    IF st._closed THEN [st EXCEPT !.wpc = "exit"]
    ELSE IF ~st._pending.set THEN [st EXCEPT !.wpc = "sleep"]
    ELSE IF st.since_write >= WRITE_INTERVAL
    THEN [st EXCEPT !.wsnap = st._pending, !.since_write = 0, !.wpc = "save",
                    !.obs.forced = FALSE,
                    !.obs.bgwrites = Min(@ + 1, 2),
                    !.obs.early = st.obs.forced /\ st.obs.elapsed < WRITE_INTERVAL,
                    !.obs.elapsed = 0,
                    !.obs.covering = TRUE]
    ELSE [st EXCEPT !.wpc = "sleep"]

\* the unlocked part: history.save(snap...); an exception ends the thread
WriterSaved(st, fail) ==
    LET w == SaveWorld(st.w, st.wsnap, fail)
    IN  [st EXCEPT !.w = [w EXCEPT !.fr = IdleFrame],
                   !.wpc = IF w.fr.outcome = "raised" THEN "dead" ELSE "sleep",
                   !.wsnap = NoSnap,
                   !.obs.dirty = @ /\ ~(st.obs.covering /\ w.fr.outcome = "returned"),
                   !.obs.covering = FALSE,
                   !.obs.reordered = @ \/ (st.obs.wstale /\ w.fr.outcome = "returned"),
                   !.obs.wstale = FALSE]

(***************************************************************************)
(* The player as a state machine: the UI thread making calls, the engine   *)
(* playing, time passing, and the writer thread.                           *)
(***************************************************************************)
World == [primary |-> primary, bak |-> bak, tmp |-> tmp,
          BAK_PATH |-> BAK_PATH, fr |-> fr]

Sess ==
    [_pl_path |-> _pl_path, playlist |-> playlist, idx |-> idx,
     _finished |-> _finished, player |-> player, etime |-> etime,
     eplaying |-> eplaying, eseekable |-> eseekable,
     _next_pending |-> _next_pending, _last_tick_pos |-> _last_tick_pos,
     _closed |-> _closed, _aout_mode |-> _aout_mode, _instance |-> _instance,
     _pending |-> _pending, since_write |-> since_write,
     wpc |-> wpc, wsnap |-> wsnap, w |-> World, obs |-> obs, err |-> "ok"]

SetPlayer(st) ==
    /\ _pl_path' = st._pl_path
    /\ playlist' = st.playlist
    /\ idx' = st.idx
    /\ _finished' = st._finished
    /\ player' = st.player
    /\ etime' = st.etime
    /\ eplaying' = st.eplaying
    /\ eseekable' = st.eseekable
    /\ _next_pending' = st._next_pending
    /\ _last_tick_pos' = st._last_tick_pos
    /\ _closed' = st._closed
    /\ _aout_mode' = st._aout_mode
    /\ _instance' = st._instance
    /\ _pending' = st._pending
    /\ since_write' = st.since_write
    /\ wpc' = st.wpc
    /\ wsnap' = st.wsnap
    /\ primary' = st.w.primary
    /\ bak' = st.w.bak
    /\ tmp' = st.w.tmp
    /\ BAK_PATH' = st.w.BAK_PATH
    /\ obs' = st.obs

SetSess(st) ==
    /\ SetPlayer(st)
    /\ UNCHANGED callVars
    /\ UNCHANGED raceVars

\* op, arg, err, nops: the latest UI call, set_output's argument, how the call
\* ended, how many were made; caught: the exception set_output caught;
\* resume: the position load_playlist read, and whether the engine took the
\* seek to it; emoved: the engine moved since the
\* latest call; elapsed: the time since the writer's latest write; early: that
\* write came before an interval had passed, for a forced mark; covering: the
\* write under way carries every mark made so far; wstale: a flush persisted
\* a later, different snapshot while the writer holds one it has not saved yet;
\* reordered: the writer then persisted that earlier snapshot; waits: the
\* sleeps the latest _set_media made while it polled for the length
NoObs ==
    [op |-> "none", arg |-> "", err |-> "ok", caught |-> "ok", nops |-> 0,
     resume |-> [ti |-> 0, pos |-> 0, took |-> FALSE], emoved |-> FALSE,
     forced |-> FALSE, batch |-> "none", bgwrites |-> 0, dirty |-> FALSE,
     covering |-> FALSE, elapsed |-> WRITE_INTERVAL, early |-> FALSE,
     wstale |-> FALSE, reordered |-> FALSE, waits |-> 0]

\* the UI thread is in no call
NoUI == [op |-> "idle", l |-> <<"A", <<>>>>, ready |-> FALSE, from |-> None]

\* the state __init__ leaves
PlayerInit ==
    /\ _pl_path = None
    /\ playlist = <<>>
    /\ idx = 0
    /\ _finished = {}
    /\ player = None
    /\ etime = 0
    /\ eplaying = FALSE
    /\ eseekable = FALSE
    /\ _next_pending = FALSE
    /\ _last_tick_pos = 0
    /\ _closed = FALSE
    /\ _aout_mode = "default"
    /\ _instance = Instance("default", 1)
    /\ _pending = NoSnap
    /\ since_write = WRITE_INTERVAL
    /\ wpc = "sleep"
    /\ wsnap = NoSnap
    /\ obs = NoObs
    /\ wfr = IdleFrame
    /\ upc = NoUI

(***************************************************************************)
(* The history store on its own: one caller making load / save /           *)
(* ensure_name calls one after the other, with I/O failures and crashes.   *)
(***************************************************************************)
SetWorld(w) ==
    /\ primary' = w.primary
    /\ bak' = w.bak
    /\ tmp' = w.tmp
    /\ BAK_PATH' = w.BAK_PATH
    /\ fr' = w.fr

Rec(items) == File(json_dump(items))

Garbage   == File(<<ObjClose>>)
Truncated == File(<<ObjOpen, Member("track_index", Num(1))>>)
ListDoc   == File(<<ListOpen, ListClose>>)
Plain     == Rec(<<Member("track_index", Num(1)), Member("position", Num(2)),
                   Member("finished", Lst(<<"a">>))>>)
Named     == Rec(<<Member("display_name", Str("n1")), Member("track_index", Num(0)),
                   Member("position", Num(0)), Member("finished", Lst(<<>>))>>)
OldNamed  == Rec(<<Member("position", Num(1)), Member("display_name", Str("n2"))>>)

PrimarySamples == {NoFile, Truncated, ListDoc, Plain, Named}
BakSamples     == {NoFile, Garbage, OldNamed}

SaveArgs == {<<0, 0, {}>>, <<1, 2, {"b", "a"}>>}
Names    == {"", "n1"}

\* how many history calls one run of the store makes
MaxCalls == 2

NoCall == [op |-> "none", pl |-> "A", ti |-> 0, pos |-> 0, fin |-> {},
           name |-> "", outcome |-> "none", after |-> NoFile, wrote |-> FALSE]

\* what the properties observe of a call: the files when it started, what it did,
\* and the call completed just before it
ObsStart(last) ==
    [op |-> "none", pl |-> "A", pre |-> NoFile, prebak |-> NoFile, renamed |-> FALSE, repairing |-> FALSE,
     faulted |-> FALSE, crashed |-> FALSE, calls |-> 0, last |-> last]

Summary ==
    [op |-> fr.op, pl |-> fr.pl, ti |-> fr.ti, pos |-> fr.pos, fin |-> fr.fin,
     name |-> fr.name, outcome |-> fr.outcome, after |-> primary[fr.pl],
     wrote |-> hobs.renamed]

StoreInit ==
    /\ primary \in [Playlists -> PrimarySamples]
    /\ primary["B"] = NoFile
    /\ bak \in [Playlists -> BakSamples]
    /\ bak["B"] = NoFile
    /\ tmp = [p \in Playlists |-> NoFile]
    /\ BAK_PATH = None
    /\ fr = IdleFrame
    /\ hobs = ObsStart(NoCall)
    /\ PlayerInit

HCall(op, pl, ti, pos, fin, name) ==
    /\ fr.pc \in {"idle", "done"}
    /\ hobs.calls < MaxCalls
    /\ fr' = CallFrame(op, pl, ti, pos, fin, name)
    /\ hobs' = [ObsStart(IF fr.pc = "done" THEN Summary ELSE NoCall)
                  EXCEPT !.op = op, !.pl = pl,
                         !.pre = primary[pl], !.prebak = bak[pl],
                         !.calls = hobs.calls + 1]
    /\ UNCHANGED <<storeVars, playerVars>>

HObserve(w) ==
    hobs' = [hobs EXCEPT
               !.renamed   = @ \/ (fr.pc = "replace" /\ w.fr.outcome = "returned"),
               !.repairing = @ \/ fr.pc = "repair_open"]

HRun ==
    /\ fr.pc \notin {"idle", "done"}
    /\ SetWorld(HStep(World))
    /\ HObserve(HStep(World))
    /\ UNCHANGED playerVars

HFault ==
    /\ fr.pc \in IOSteps
    /\ \E w \in FaultWorlds(World) : SetWorld(w)
    /\ hobs' = [hobs EXCEPT !.faulted = TRUE]
    /\ UNCHANGED playerVars

\* the process dies in the middle of a call and is started again
HCrash ==
    /\ fr.pc \notin {"idle", "done"}
    /\ \E w \in TornWorlds(World) :
          SetWorld([w EXCEPT !.fr = IdleFrame, !.BAK_PATH = None])
    /\ hobs' = [hobs EXCEPT !.crashed = TRUE]
    /\ UNCHANGED playerVars

StoreNext ==
    \/ \E pl \in Playlists : HCall("load", pl, 0, 0, {}, "")
    \/ \E pl \in Playlists, a \in SaveArgs : HCall("save", pl, a[1], a[2], a[3], "")
    \/ \E pl \in Playlists, nm \in Names : HCall("ensure_name", pl, 0, 0, {}, nm)
    \/ HRun
    \/ HFault
    \/ HCrash

SpecStore == StoreInit /\ [][StoreNext]_vars

(***************************************************************************)
(* The calls of the UI thread, the engine, the clock and the writer.       *)
(***************************************************************************)
\* a run makes at most n calls from the UI thread
Budget(n) == obs.nops < n

\* how many UI calls a run of each scenario makes
ResumeOps == 2
WriterOps == 2

\* a call by the UI thread, and what the properties note of it
UICall(name, st) ==
    /\ ~_closed
    /\ SetSess([st EXCEPT !.obs.op = name, !.obs.arg = "", !.obs.err = st.err,
                          !.obs.nops = obs.nops + 1, !.obs.emoved = FALSE])

\* lists: the playlists the UI opens, each a path and its tracks; fails: whether a history.save made by the
\* call may meet an I/O failure
LoadPlaylist(lists, fails) ==
    \E l \in lists, ready \in BOOLEAN, fail \in fails :
        UICall("load_playlist", load_playlist(Sess, l[1], l[2], ready, fail))

SeekTargets == {0, MaxPos}

Play == UICall("play", play(Sess))

Pause == UICall("pause", pause(Sess))

Seek(fails) ==
    \E s \in SeekTargets, fail \in fails : UICall("seek", seek(Sess, s, fail))

NextTrack == UICall("next_track", next_track(Sess))

PrevTrack == UICall("prev_track", prev_track(Sess))

Tick(fails) == \E fail \in fails : UICall("tick", tick(Sess, fail))

Close(fails) == \E fail \in fails : UICall("close", close(Sess, fail))

\* the engine has opened the media: its length is known, it can seek
EngineOpened ==
    /\ player # None /\ player \notin BadTracks /\ ~eseekable
    /\ SetSess([Sess EXCEPT !.eseekable = TRUE])

EngineAdvance ==
    /\ eplaying /\ eseekable /\ etime < MaxPos
    /\ SetSess([Sess EXCEPT !.etime = @ + 1, !.obs.emoved = TRUE])

\* Mutant: the end-of-track callback makes the advance itself
EngineEnd_Inline ==
    /\ eplaying /\ eseekable /\ etime = MaxPos
    /\ SetSess([next_track([Sess EXCEPT !.eplaying = FALSE])
                   EXCEPT !.obs.emoved = TRUE])

\* MediaPlayerEndReached: the attached lambda sets _next_pending
EngineEnd ==
    /\ eplaying /\ eseekable /\ etime = MaxPos
    /\ SetSess([Sess EXCEPT !._next_pending = TRUE, !.eplaying = FALSE,
                            !.obs.emoved = TRUE])

\* one sleep period of the writer loop passes
Tock ==
    /\ wpc = "sleep" \/ since_write < WRITE_INTERVAL \/ obs.elapsed < WRITE_INTERVAL
    /\ SetSess([Sess EXCEPT !.since_write = Min(@ + 1, WRITE_INTERVAL),
                            !.wpc = IF @ = "sleep" THEN "ready" ELSE @,
                            !.obs.elapsed = Min(@ + 1, WRITE_INTERVAL)])

WriterWake ==
    /\ wpc = "ready"
    /\ SetSess(WriterLocked(Sess))

WriterSave(fails) ==
    /\ wpc = "save"
    /\ \E fail \in fails : SetSess(WriterSaved(Sess, fail))

Indexed(n) == Rec(<<Member("track_index", Num(n)), Member("position", Num(1))>>)
BadIndex   == Rec(<<Member("track_index", Str("x"))>>)

ResumeSamples == {NoFile, Truncated, ListDoc, Plain, Indexed(-1), Indexed(5),
                  BadIndex}

FilesInit(primaries, baks) ==
    /\ primary \in {[p \in Playlists |-> IF p = "A" THEN f ELSE NoFile] :
                        f \in primaries}
    /\ bak \in {[p \in Playlists |-> IF p = "A" THEN f ELSE NoFile] :
                    f \in baks}
    /\ tmp = [p \in Playlists |-> NoFile]
    /\ BAK_PATH = None
    /\ fr = IdleFrame
    /\ hobs = ObsStart(NoCall)

(***************************************************************************)
(* Resuming: a playlist is opened over whatever history is stored, and the *)
(* player is closed.                                                       *)
(***************************************************************************)
ResumeLists == {<<"A", <<"a", "c", "b">>>>, <<"A", <<"a">>>>}

ResumeInit == FilesInit(ResumeSamples, {NoFile, OldNamed}) /\ PlayerInit

ResumeNext ==
    \/ Budget(ResumeOps) /\ LoadPlaylist(ResumeLists, {FALSE})
    \/ Budget(ResumeOps) /\ Close({FALSE})
    \/ EngineOpened
    \/ EngineAdvance
    \/ EngineEnd
    \/ Tock
    \/ WriterWake
    \/ WriterSave({FALSE})

SpecResume == ResumeInit /\ [][ResumeNext]_vars

(***************************************************************************)
(* The debounced writer at work: a playlist is opened, ticks make soft     *)
(* marks, pause and seek forced ones, and a history.save of the writer     *)
(* thread may fail.                                                        *)
(***************************************************************************)
WriterLists == {<<"A", <<"a", "c">>>>}

WriterInit == FilesInit({NoFile, Plain}, {NoFile}) /\ PlayerInit

WriterNext ==
    \/ Budget(WriterOps) /\ LoadPlaylist(WriterLists, {FALSE})
    \/ Budget(WriterOps) /\ Tick({FALSE})
    \/ Budget(WriterOps) /\ Play
    \/ Budget(WriterOps) /\ Pause
    \/ Budget(WriterOps) /\ Seek({FALSE})
    \/ Budget(WriterOps) /\ Close({FALSE})
    \/ EngineOpened
    \/ EngineAdvance
    \/ EngineEnd
    \/ Tock
    \/ WriterWake
    \/ WriterSave(BOOLEAN)

SpecWriter == WriterInit /\ [][WriterNext]_vars

\* a history.save of the writer thread returns
SaveReturns == wpc = "save" /\ wpc' = "sleep"

\* the same with the writer thread scheduled: time passes, the loop wakes, and
\* a history.save under way comes to its end
LiveWriter ==
    /\ SpecWriter
    /\ WF_vars(Tock)
    /\ WF_vars(WriterWake)
    /\ WF_wpc(SaveReturns)

(***************************************************************************)
(* The two threads saving at once.  history.save is called outside the     *)
(* player's lock, so here the saves of the UI thread (frame fr) and of the *)
(* writer thread (frame wfr) run one step of history.py at a time, in any  *)
(* order, on the same files and the same BAK_PATH.                         *)
(***************************************************************************)
RaceOps == 2

RaceLists == {<<"A", <<"a", "c">>>>, <<"B", <<"c">>>>}

\* flush_history: the snapshot it takes, and the state its locked block leaves
FlushSnap(st) == IF st._pl_path # None THEN _snapshot(st) ELSE NoSnap

FlushLocked(st) ==
    [st EXCEPT !._pending = NoSnap, !.obs.forced = FALSE, !.obs.batch = "none"]

\* what seek, close and load_playlist do before they call flush_history
seek_pre(st, s) ==
    _mark_dirty([st EXCEPT !.etime = IF st.eseekable THEN s ELSE @], TRUE)

close_pre(st) == [st EXCEPT !._closed = TRUE]

\* Mutant: load_playlist installs the new playlist before it flushes
load_playlist_pre_SwapFirst(st, l) ==
    [st EXCEPT !._pl_path = l[1], !.playlist = l[2]]

load_playlist_pre(st, l) == st

\* what load_playlist does after its flush_history returned
load_playlist_post(st, l, ready) ==
    LoadResume([st EXCEPT !._pl_path = l[1], !.playlist = l[2]], ready)

\* the UI thread enters a call and runs it up to the save of its flush
RaceBegin(call, st0) ==
    LET snap == FlushSnap(st0)
    IN  /\ upc.op = "idle" /\ ~_closed /\ Budget(RaceOps)
        /\ SetPlayer(FlushLocked(st0))
        /\ upc' = call
        /\ fr' = IF snap.set
                 THEN CallFrame("save", snap.pl_path, snap.track_index,
                                snap.position, snap.finished, "")
                 ELSE [IdleFrame EXCEPT !.pc = "done", !.outcome = "returned"]
        /\ UNCHANGED <<hobs, wfr>>

UICallOf(op, l, ready) ==
    [op |-> op, l |-> l, ready |-> ready, from |-> _pl_path]

RaceLoadPlaylist ==
    \E l \in RaceLists, ready \in BOOLEAN :
        RaceBegin(UICallOf("load_playlist", l, ready), load_playlist_pre(Sess, l))

RaceSeek ==
    /\ player # None
    /\ \E s \in SeekTargets :
          RaceBegin(UICallOf("seek", <<"A", <<>>>>, FALSE), seek_pre(Sess, s))

RaceClose == RaceBegin(UICallOf("close", <<"A", <<>>>>, FALSE), close_pre(Sess))

\* one step of the history.save the UI thread is in
RaceUIStep ==
    /\ upc.op # "idle"
    /\ fr.pc \notin {"idle", "done"}
    /\ SetWorld(HStep(World))
    /\ UNCHANGED <<hobs, playerVars>>

\* that save is over: the flush returns or raises, and the call goes on
RaceUIReturn ==
    /\ upc.op # "idle"
    /\ fr.pc = "done"
    /\ LET ok == fr.outcome = "returned"
           st == IF ok /\ upc.op = "load_playlist"
                 THEN load_playlist_post(Sess, upc.l, upc.ready)
                 ELSE [Sess EXCEPT !.err = IF ok THEN "ok" ELSE fr.exc]
       IN  SetPlayer([st EXCEPT !.obs.op = upc.op, !.obs.err = st.err,
                                !.obs.nops = @ + 1, !.obs.emoved = FALSE])
    /\ fr' = IdleFrame
    /\ upc' = NoUI
    /\ UNCHANGED <<hobs, wfr>>

\* one step of the history.save the writer thread is in
RaceWriterStep ==
    /\ wpc = "save"
    /\ wfr.pc # "done"
    /\ LET frame == IF wfr.pc = "idle"
                    THEN CallFrame("save", wsnap.pl_path, wsnap.track_index,
                                   wsnap.position, wsnap.finished, "")
                    ELSE wfr
           w == HStep([World EXCEPT !.fr = frame])
       IN  /\ primary' = w.primary
           /\ bak' = w.bak
           /\ tmp' = w.tmp
           /\ BAK_PATH' = w.BAK_PATH
           /\ wfr' = w.fr
    /\ UNCHANGED <<callVars, sessionVars, writerVars, obs, upc>>

\* the writer's save is over: back to sleep, or the exception ends the thread
RaceWriterReturn ==
    /\ wpc = "save"
    /\ wfr.pc = "done"
    /\ SetPlayer([Sess EXCEPT !.wpc = IF wfr.outcome = "raised" THEN "dead"
                                      ELSE "sleep",
                              !.wsnap = NoSnap])
    /\ wfr' = IdleFrame
    /\ UNCHANGED <<callVars, upc>>

RaceInit == FilesInit({Plain}, {NoFile}) /\ PlayerInit

RaceNext ==
    \/ RaceLoadPlaylist
    \/ RaceSeek
    \/ RaceClose
    \/ RaceUIStep
    \/ RaceUIReturn
    \/ EngineOpened
    \/ Tock
    \/ WriterWake
    \/ RaceWriterStep
    \/ RaceWriterReturn

SpecRace == RaceInit /\ [][RaceNext]_vars

(***************************************************************************)
(* Moving through a playlist: next_track and prev_track called by the UI,  *)
(* and the advance tick() makes once the engine reached the end of a       *)
(* track. The second track of the list is one that fails to open.          *)
(***************************************************************************)
NavOps == 3

NavLists == {<<"A", <<"a", "b", "c">>>>}

\* a record left by a session that was on the last of three tracks
AtLast == Rec(<<Member("track_index", Num(2)), Member("position", Num(1)),
                Member("finished", Lst(<<"a", "b">>))>>)

NavInit == FilesInit({NoFile, AtLast}, {NoFile}) /\ PlayerInit

NavNext ==
    \/ Budget(NavOps) /\ LoadPlaylist(NavLists, {FALSE})
    \/ Budget(NavOps) /\ NextTrack
    \/ Budget(NavOps) /\ PrevTrack
    \/ Budget(NavOps) /\ Tick({FALSE})
    \/ EngineOpened
    \/ EngineAdvance
    \/ EngineEnd

SpecNav == NavInit /\ [][NavNext]_vars

(***************************************************************************)
(* Changing the audio output: set_output run statement by statement on the *)
(* UI thread, with the engine and the writer thread going on meanwhile.    *)
(***************************************************************************)
OutOps == 2

OutLists == {<<"A", <<"a", "c">>>>}

\* the modes the UI asks for; the last is none of AOUT_OPTS
OutModes == {"default", "directsound", "bogus"}

\* how vlc.Instance(opts) may end: an instance, None, or an exception
InstanceOutcomes == {"built", "null", "raises"}

\* the UI thread inside _restart_instance: the mode asked for, the one to
\* roll back to, and the locals cur_pl, cur_tracks, cur_idx, cur_pos; pre
\* keeps, for the properties, the engine as it was when the call began, and
\* wrote the contents the call has given the playlist's history file so far
OutFrame(pc, mode, st) ==
    [op |-> "set_output", pc |-> pc, mode |-> mode, prev |-> st._aout_mode,
     cur_pl |-> st._pl_path, cur_tracks |-> st.playlist, cur_idx |-> st.idx,
     cur_pos |-> position(st),
     pre |-> [player |-> st.player, _instance |-> st._instance],
     wrote |-> {}]

\* what a step of the call from the session as it is to st writes to the
\* history file of the playlist
OutWrites(st) ==
    IF upc.cur_pl # None /\ st.w.primary[upc.cur_pl] # primary[upc.cur_pl]
    THEN {st.w.primary[upc.cur_pl]}
    ELSE {}

\* set_output(mode) is called: the mode is looked up and compared, and for a
\* new mode _restart_instance is entered and has taken its locals
SetOutput ==
    /\ upc.op = "idle" /\ ~_closed
    /\ \E mode \in OutModes :
          LET r  == set_output_pre(Sess, mode)
              st == [r.st EXCEPT !.obs.op = "set_output", !.obs.arg = mode,
                                 !.obs.err = r.st.err, !.obs.caught = "ok",
                                 !.obs.nops = @ + 1,
                                 !.obs.emoved = FALSE]
          IN  /\ SetPlayer(st)
              /\ upc' = IF r.restart THEN OutFrame("stop", mode, Sess) ELSE NoUI
    /\ UNCHANGED <<callVars, wfr>>

\* set_output returns; after an exception of _restart_instance it has put
\* the previous mode back
OutReturn(st) ==
    /\ SetPlayer([st EXCEPT !._aout_mode = IF st.err = "ok" THEN @ ELSE upc.prev,
                            !.obs.err = "ok", !.obs.caught = st.err])
    /\ upc' = NoUI

OutGoOn(st, pc) ==
    IF st.err = "ok"
    THEN SetPlayer(st) /\ upc' = [upc EXCEPT !.pc = pc,
                                             !.wrote = @ \cup OutWrites(st)]
    ELSE OutReturn(st)

\* self.stop()
OutStop ==
    /\ upc.op = "set_output" /\ upc.pc = "stop"
    /\ OutGoOn(stop(Sess), "make")
    /\ UNCHANGED <<callVars, wfr>>

\* self._make_instance(); with no playlist loaded that is all
OutMake ==
    /\ upc.op = "set_output" /\ upc.pc = "make"
    /\ \E how \in InstanceOutcomes :
          LET st == IF how = "raises" THEN [Sess EXCEPT !.err = "Exception"]
                    ELSE _make_instance(Sess, how = "built")
          IN  IF upc.cur_pl = None /\ st.err = "ok" THEN OutReturn(st)
              ELSE OutGoOn(st, "load")
    /\ UNCHANGED <<callVars, wfr>>

\* self.load_playlist(cur_pl, cur_tracks)
OutLoad ==
    /\ upc.op = "set_output" /\ upc.pc = "load"
    /\ \E ready \in BOOLEAN :
          OutGoOn(load_playlist(Sess, upc.cur_pl, upc.cur_tracks, ready, FALSE),
                  "seek")
    /\ UNCHANGED <<callVars, wfr>>

\* self.idx = min(cur_idx, max(0, len(self.playlist)-1)); self.seek(cur_pos)
OutSeek ==
    /\ upc.op = "set_output" /\ upc.pc = "seek"
    /\ OutReturn(seek([Sess EXCEPT !.idx = Min(upc.cur_idx,
                                              Max(0, Len(playlist) - 1))],
                      upc.cur_pos, FALSE))
    /\ UNCHANGED <<callVars, wfr>>

OutInit == FilesInit({NoFile, Plain}, {NoFile}) /\ PlayerInit

OutNext ==
    \/ Budget(OutOps) /\ upc.op = "idle" /\ LoadPlaylist(OutLists, {FALSE})
    \/ Budget(OutOps) /\ SetOutput
    \/ OutStop
    \/ OutMake
    \/ OutLoad
    \/ OutSeek
    \/ EngineOpened
    \/ EngineAdvance
    \/ Tock
    \/ WriterWake
    \/ WriterSave({FALSE})

SpecOutput == OutInit /\ [][OutNext]_vars

(***************************************************************************)
(* The controls: play, pause, close (also called a second time), and the   *)
(* tick of the UI timer, which goes on for as long as the window is open   *)
(* and makes the advance once the engine has reported the end of a track.  *)
(***************************************************************************)
ControlOps == 3

ControlLists == {<<"A", <<"a", "c">>>>}

\* close() called on a player that is closed already
CloseAgain ==
    /\ _closed
    /\ LET st == close(Sess, FALSE)
       IN  SetSess([st EXCEPT !.obs.op = "close", !.obs.arg = "",
                              !.obs.err = st.err, !.obs.nops = obs.nops + 1,
                              !.obs.emoved = FALSE])

ControlInit == FilesInit({NoFile, Plain}, {NoFile}) /\ PlayerInit

ControlNext ==
    \/ Budget(ControlOps) /\ LoadPlaylist(ControlLists, {FALSE})
    \/ Budget(ControlOps) /\ Play
    \/ Budget(ControlOps) /\ Pause
    \/ Budget(ControlOps) /\ Close({FALSE})
    \/ Budget(ControlOps) /\ CloseAgain
    \/ (Budget(ControlOps) \/ _next_pending) /\ Tick({FALSE})
    \/ EngineOpened
    \/ EngineAdvance
    \/ EngineEnd

SpecControls == ControlInit /\ [][ControlNext]_vars

\* the UI timer fires tick() every 100 ms for as long as the window is open:
\* a tick that finds _next_pending set comes and clears it
TickAdvances == _next_pending /\ ~_closed /\ _next_pending' = FALSE

LiveControls == SpecControls /\ WF_<<_next_pending>>(TickAdvances)

(***************************************************************************)
(* Claims about the history store, checked under SpecStore.                *)
(***************************************************************************)
WritingCall == hobs.op \in {"save", "ensure_name"}

CallDone == fr.pc = "done" /\ fr.outcome = "returned"

\* the bytes a copy of file f can leave in its destination, whole or cut short
CopiesOf(f) == {File(b) : b \in ProperPrefixes(f.bytes) \cup {f.bytes}}

\* the record load() finds for files (p, b) when no I/O fails
StoredRecord(p, b) ==
    IF ReadJson(p).ok THEN ReadJson(p).v
    ELSE IF b.exists /\ ReadJson(b).ok THEN ReadJson(b).v
    ELSE PyDict(<<>>)

SavedFields == {"track_index", "position", "finished"}

C3_LoadRecoversFromBackup ==
    ( /\ fr.op = "load" /\ fr.pc = "done" /\ ~hobs.faulted
      /\ ~ReadJson(hobs.pre).ok
      /\ ReadJson(hobs.prebak).ok )
    => /\ fr.outcome = "returned"
       /\ fr.ret = ReadJson(hobs.prebak).v
       /\ primary[fr.pl] = hobs.prebak
       /\ bak[fr.pl] = hobs.prebak

C3_Witness ==
    /\ fr.op = "load" /\ CallDone /\ ~hobs.faulted
    /\ hobs.pre.exists /\ ~ReadJson(hobs.pre).ok
    /\ ReadJson(hobs.prebak).ok
    /\ fr.ret = ReadJson(bak[fr.pl]).v
    /\ primary[fr.pl] = bak[fr.pl]
    /\ primary[fr.pl] # hobs.pre

SameSaveAsLast ==
    /\ fr.op = "save" /\ CallDone /\ ~hobs.faulted
    /\ hobs.last.op = "save" /\ hobs.last.outcome = "returned"
    /\ hobs.last.pl = fr.pl
    /\ <<hobs.last.ti, hobs.last.pos, hobs.last.fin>> = <<fr.ti, fr.pos, fr.fin>>

\* C5: a save that directly follows a save of the same playlist with the same
\* (track_index, position, finished) leaves the primary file with the bytes
\* the first save left.
C5_SaveIdempotent ==
    SameSaveAsLast => primary[fr.pl] = hobs.last.after

C5_Witness ==
    /\ SameSaveAsLast
    /\ hobs.last.wrote /\ hobs.renamed
    /\ fr.fin # {}
    /\ primary[fr.pl] = hobs.last.after

\* C6: every field of the stored record other than track_index, position and
\* finished has the same value after a save as before it.
C6_SaveKeepsOtherFields ==
    (fr.op = "save" /\ CallDone /\ ~hobs.faulted) =>
        LET before == StoredRecord(hobs.pre, hobs.prebak)
            after  == ReadJson(primary[fr.pl])
        IN  /\ after.ok /\ after.v.type = "dict"
            /\ \A i \in 1..Len(before.items) :
                  before.items[i].key \notin SavedFields =>
                     /\ HasKey(after.v.items, before.items[i].key)
                     /\ Get(after.v.items, before.items[i].key, NullV)
                          = before.items[i].val

\* a save that changed the stored track_index of a record carrying a name
C6_Witness ==
    /\ fr.op = "save" /\ CallDone /\ ~hobs.faulted /\ hobs.renamed
    /\ HasKey(StoredRecord(hobs.pre, hobs.prebak).items, "display_name")
    /\ Get(StoredRecord(hobs.pre, hobs.prebak).items, "track_index", NullV)
         # Num(fr.ti)
    /\ Get(ReadJson(primary[fr.pl]).v.items, "track_index", NullV) = Num(fr.ti)

WroteOverExisting ==
    /\ WritingCall /\ CallDone /\ hobs.renamed /\ ~hobs.faulted
    /\ hobs.pre.exists

\* C7 (as stated): after a save or ensure_name that performed its write on a
\* playlist whose primary file existed, the .bak file holds the bytes the
\* primary held when the call started and the primary the new record.
C7_BakIsPreCallPrimary ==
    WroteOverExisting =>
        /\ bak[fr.pl] = hobs.pre
        /\ primary[fr.pl] = File(json_dump(fr.data.items))

\* C7 (amended): ... the .bak file holds the bytes the primary held just
\* before the rename: the pre-call primary, or, when the load inside the call
\* repaired the primary from the backup, the backup's own (unchanged) bytes.
C7_BakIsPreviousGeneration ==
    WroteOverExisting =>
        /\ bak[fr.pl] = IF hobs.repairing THEN hobs.prebak ELSE hobs.pre
        /\ primary[fr.pl] = File(json_dump(fr.data.items))
        /\ primary[fr.pl] # NoFile /\ ReadJson(primary[fr.pl]).ok

C7_Witness ==
    /\ WroteOverExisting /\ ~hobs.repairing
    /\ ReadJson(hobs.pre).ok
    /\ bak[fr.pl] = hobs.pre
    /\ bak[fr.pl] # hobs.prebak
    /\ primary[fr.pl] # hobs.pre

(***************************************************************************)
(* Claims about resuming a playlist, checked under SpecResume.             *)
(***************************************************************************)
\* this step is the UI's close(), made right after a load_playlist that
\* returned with the engine at the resume position, the engine not having
\* moved in between
CloseRightAfterLoad ==
    /\ obs.op = "load_playlist" /\ obs.err = "ok" /\ obs.resume.took
    /\ ~obs.emoved
    /\ obs'.op = "close" /\ obs'.nops = obs.nops + 1 /\ obs'.err = "ok"

Clamp(i, n) == Max(0, Min(i, n - 1))

\* C1: for every non-empty track list and every stored record, load_playlist
\* immediately followed by close() leaves on disk a record whose track_index
\* is the stored index clamped to the track list and whose position is the
\* stored position.
C1_LoadThenClosePersistsResume ==
    [][CloseRightAfterLoad =>
          LET disk == ReadJson(primary'[_pl_path])
          IN  /\ disk.ok
              /\ Get(disk.v.items, "track_index", NullV)
                   = Num(Clamp(obs.resume.ti, Len(playlist)))
              /\ Get(disk.v.items, "position", NullV) = Num(obs.resume.pos)]_vars

\* C4: load_playlist never fails because of the stored history, whatever the
\* primary and backup files hold: the call returns and the session resumes.
C4_LoadPlaylistNeverFails ==
    obs.op = "load_playlist" => obs.err = "ok"

(***************************************************************************)
(* Claims about the debounced writer, checked under SpecWriter and         *)
(* LiveWriter.                                                             *)
(***************************************************************************)
\* C8: soft marks made within one debounce interval, with no forced mark or
\* flush among them, lead to exactly one write by the background writer: once
\* it has written, it does not write again before the next mark.
C8_SoftMarksOneWrite ==
    obs.batch = "soft" => obs.bgwrites <= 1

\* C12: once a snapshot has been persisted for a playlist, no snapshot taken
\* earlier than it is persisted afterwards, however the writer thread and the
\* flushes of the UI thread interleave.
C12_SnapshotsPersistedInOrder ==
    ~obs.reordered

\* this step is a wake of the writer loop
WakeStep == wpc = "ready" /\ wpc' # "ready"

OnDisk(snap, file) ==
    LET disk == ReadJson(file)
    IN  /\ disk.ok
        /\ Get(disk.v.items, "track_index", NullV) = Num(snap.track_index)
        /\ Get(disk.v.items, "position", NullV) = Num(snap.position)
        /\ Get(disk.v.items, "finished", NullV) = Lst(sorted(snap.finished))

\* C9: when a forced mark is waiting (no flush has taken it), the next wake of
\* the writer takes the pending snapshot to write it, whatever time has
\* passed since its last write, and the save it then makes, unless it raises,
\* leaves that snapshot on disk.
C9_ForcedMarkWrittenAtNextWake ==
    /\ [][(WakeStep /\ obs.forced /\ ~_closed) =>
             /\ _pending.set
             /\ wpc' = "save"
             /\ wsnap' = _pending]_vars
    /\ [][SaveReturns => OnDisk(wsnap, primary'[wsnap.pl_path])]_vars

\* the writer wrote a forced mark's snapshot less than an interval after its
\* previous write, and no mark was made since
C9_Witness ==
    /\ obs.early /\ obs.bgwrites = 1 /\ ~obs.dirty
    /\ wpc \in {"sleep", "ready"}
    /\ _pending.set
    /\ OnDisk(_pending, primary[_pending.pl_path])

\* C10: with the writer thread scheduled fairly, a position that a mark put
\* in the pending slot is eventually on disk, itself or a newer one.
C10_MarkedEventuallyWritten ==
    obs.dirty ~> ~obs.dirty

(***************************************************************************)
(* Claims about the two threads saving at once, checked under SpecRace.    *)
(***************************************************************************)
\* the save in frame f has run its first step and not yet its last
Started(f) == f.pc \notin {"idle", "path", "done"}

\* C11: while one history.save for a playlist is between its first and last
\* step, no other history.save for the same playlist executes a step: the
\* save of the UI thread and the save of the writer thread are never both
\* under way for one playlist.
C11_SavesNeverInterleave ==
    ~(Started(fr) /\ Started(wfr) /\ fr.pl = wfr.pl)

\* the UI thread is inside the flush that load_playlist starts with
InSwapFlush == upc.op = "load_playlist" /\ fr.op = "save" /\ fr.pc # "idle"

\* C13: a flush has completed its save when it returns, and load_playlist
\* flushes before it replaces the playlist: while that flush is under way the
\* session still holds the old playlist, the save carries the old playlist's
\* path, index and finished set, and its rename leaves them on disk.
C13_FlushBeforeSwap ==
    /\ [](InSwapFlush =>
             /\ _pl_path = upc.from
             /\ fr.pl = upc.from /\ fr.ti = idx /\ fr.fin = _finished)
    /\ [][(upc.op # "idle" /\ upc'.op = "idle") => fr.pc = "done"]_vars
    /\ [][(InSwapFlush /\ fr.pc = "replace" /\ fr'.outcome = "returned"
           /\ wfr.pc = "idle") =>
             OnDisk([track_index |-> idx, position |-> fr.pos,
                     finished |-> _finished], primary'[upc.from])]_vars

\* load_playlist(B) has flushed playlist A, resumed at index 1 with a track
\* finished, and is about to install B
C13_Witness ==
    /\ InSwapFlush /\ fr.pc = "done" /\ fr.outcome = "returned"
    /\ upc.from = "A" /\ upc.l[1] = "B"
    /\ idx = 1 /\ _finished = {"a"}
    /\ OnDisk([track_index |-> 1, position |-> fr.pos, finished |-> {"a"}],
              primary["A"])
    /\ primary["A"] # Plain

\* C14: when seek(s) returns with a track open, the record of the current
\* playlist on disk holds the index and the position of the snapshot seek
\* took after moving the engine: the jump is persisted before seek returns.
C14_SeekPersistedOnReturn ==
    [][(upc.op = "seek" /\ upc'.op = "idle" /\ fr.outcome = "returned") =>
          OnDisk([track_index |-> fr.ti, position |-> fr.pos,
                  finished |-> fr.fin], primary[fr.pl])]_vars


\* C15: a failure of history.save inside the writer's loop does not stop the writer: the thread never
\* ends through an exception, it is back asleep for its next round (it ends only once the player is
\* closed).
C15_WriterSurvivesSaveFailure == wpc # "dead"

(***************************************************************************)
(* Claims about where a loaded playlist resumes, checked under SpecResume. *)
(***************************************************************************)
\* this step is a load_playlist that returned
LoadStep ==
    obs'.op = "load_playlist" /\ obs'.nops = obs.nops + 1 /\ obs'.err = "ok"

\* disk, read from the file of the playlist just loaded, is a full record
\* whose index is a position of the track list
StoredInRange(disk) ==
    /\ disk.ok /\ disk.v.type = "dict"
    /\ Get(disk.v.items, "track_index", NullV).t = "num"
    /\ Get(disk.v.items, "track_index", NullV).n \in 0..(Len(playlist') - 1)
    /\ Get(disk.v.items, "position", NullV).t = "num"
    /\ Get(disk.v.items, "finished", NullV).t = "list"

\* C16: load_playlist resumes from the stored record: idx is the stored
\* track_index, finished the stored set, the track at idx is opened and, the
\* engine taking the seek, is at the stored position, and a forced mark of
\* that state is pending.
C16_LoadResumesStoredRecord ==
    [][LoadStep =>
          \A disk \in {ReadJson(primary'[_pl_path'])} :
             StoredInRange(disk) =>
                LET items == disk.v.items
                    fin   == Get(items, "finished", NullV).l
                IN  /\ idx' = Get(items, "track_index", NullV).n
                    /\ _finished' = {fin[k] : k \in 1..Len(fin)}
                    /\ player' = playlist'[idx' + 1]
                    /\ obs'.resume.took => etime' = Get(items, "position", NullV).n
                    /\ _pending' = [set |-> TRUE, pl_path |-> _pl_path',
                                    track_index |-> idx', position |-> etime',
                                    finished |-> _finished']
                    /\ since_write' = WRITE_INTERVAL /\ obs'.forced]_vars

\* the example: stored {track_index 1, position 2, finished {a}}, three
\* tracks, resumed at the second track, 2 seconds in
C16_Witness ==
    /\ obs.op = "load_playlist" /\ obs.err = "ok" /\ obs.nops = 1
    /\ primary["A"] = Plain /\ Len(playlist) = 3
    /\ idx = 1 /\ player = "c" /\ etime = 2 /\ eseekable
    /\ _finished = {"a"}
    /\ _pending.set /\ _pending.track_index = 1 /\ _pending.position = 2

\* C17: whenever a playlist is loaded, idx is a position of its track list,
\* 0 <= idx < len(tracks), after every operation, and a track_index persisted
\* for it by the player is in that range too.
C17_IndexInRange ==
    (_pl_path # None /\ playlist # <<>>) =>
        /\ idx \in 0..(Len(playlist) - 1)
        /\ _pending.set => _pending.track_index \in 0..(Len(playlist) - 1)

(***************************************************************************)
(* Claims about moving through a playlist, checked under SpecNav.          *)
(***************************************************************************)
\* the prev_track threshold of the specification (5 seconds), on the scale
\* of the positions kept here
PrevThreshold == 2

\* this step is an advance that returned: next_track() called by the UI, or
\* the tick() that follows the end of a track; a playlist is loaded and idx
\* is a position of it
AdvanceStep ==
    /\ _pl_path # None /\ idx \in 0..(Len(playlist) - 1)
    /\ obs'.nops = obs.nops + 1 /\ obs'.err = "ok"
    /\ \/ obs'.op = "next_track"
       \/ obs'.op = "tick" /\ _next_pending

\* the positions after idx whose track opens
LaterOpening == {k \in (idx + 1)..(Len(playlist) - 1) :
                    playlist[k + 1] \notin BadTracks}

\* C18: an advance adds the track just played to finished and moves to the
\* first later track that opens; every track between the two, which failed
\* to open, is added to finished and skipped.
C18_AdvanceSkipsFailing ==
    [][(AdvanceStep /\ LaterOpening # {}) =>
          LET j == CHOOSE k \in LaterOpening : \A m \in LaterOpening : k <= m
          IN  /\ idx' = j
              /\ player' = playlist[j + 1]
              /\ {playlist[i + 1] : i \in idx..(j - 1)} \subseteq _finished']_vars

\* C19: an advance from the last track marks it finished, stops the engine
\* and leaves idx where it is, playback halted, and raises nothing.
C19_AdvanceAtEndStops ==
    [][(_pl_path # None /\ idx = Len(playlist) - 1 /\ idx >= 0
        /\ obs'.nops = obs.nops + 1
        /\ (obs'.op = "next_track" \/ (obs'.op = "tick" /\ _next_pending))) =>
          /\ obs'.err = "ok"
          /\ idx' = idx
          /\ playlist[idx + 1] \in _finished'
          /\ ~eplaying']_vars

\* this step is a prev_track() with a track open
PrevStep ==
    /\ _pl_path # None /\ player # None /\ idx \in 0..(Len(playlist) - 1)
    /\ obs'.op = "prev_track" /\ obs'.nops = obs.nops + 1

\* C20: prev_track with the position above the threshold restarts the
\* current track at position 0 and leaves idx unchanged; with the position at
\* or below it and idx > 0 it moves to idx - 1 and opens that track.
C20_PrevRestartsAboveThreshold ==
    [][PrevStep =>
          IF etime > PrevThreshold
          THEN idx' = idx /\ player' = player /\ etime' = 0
          ELSE idx > 0 => (idx' = idx - 1 /\ player' = playlist[idx])]_vars

(***************************************************************************)
(* Claims about set_output, checked under SpecOutput.                      *)
(***************************************************************************)
\* this step is the UI thread calling set_output
SetOutputStep == obs'.op = "set_output" /\ obs'.nops = obs.nops + 1

\* C21: set_output with a mode that is none of the known modes raises
\* ValueError and changes nothing: the output mode, the engine instance, the
\* playlist, idx, the finished set, the pending snapshot and the files are
\* what they were.
C21_UnknownModeRejected ==
    [][(SetOutputStep /\ obs'.arg \notin DOMAIN AOUT_OPTS) =>
          /\ obs'.err = "ValueError"
          /\ upc'.op = "idle"
          /\ UNCHANGED <<sessionVars, writerVars, storeVars>>]_vars

\* an unknown mode was refused while a track was open and a snapshot pending
C21_Witness ==
    /\ obs.op = "set_output" /\ obs.arg = "bogus" /\ obs.err = "ValueError"
    /\ player # None /\ _pending.set /\ _aout_mode = "default"

\* C22: set_output with the mode that is already active does not rebuild the
\* engine instance and changes no session state.
C22_SameModeNoRestart ==
    [][(SetOutputStep /\ obs'.arg = _aout_mode) =>
          /\ obs'.err = "ok"
          /\ upc'.op = "idle"
          /\ UNCHANGED <<sessionVars, writerVars, storeVars>>]_vars

\* directsound was asked for twice: the second call found the instance the
\* first one built
C22_Witness ==
    /\ obs.op = "set_output" /\ obs.arg = "directsound" /\ obs.nops = 2
    /\ upc.op = "idle" /\ _pl_path = None
    /\ _aout_mode = "directsound" /\ _instance = Instance("directsound", 2)

\* this step is set_output returning from _restart_instance
OutReturnStep == upc.op = "set_output" /\ upc'.op = "idle"

\* C23: set_output with a valid mode other than the active one rebuilds the
\* engine instance exactly once, with the options of the new mode, and when
\* it returns the playlist, idx and the playback position are those of
\* before the call.
C23_RestartKeepsPlayback ==
    [][(OutReturnStep /\ _aout_mode' = upc.mode /\ _instance'.ok) =>
          /\ _instance' = Instance(upc.mode, upc.pre._instance.n + 1)
          /\ _pl_path' = upc.cur_pl
          /\ playlist' = upc.cur_tracks
          /\ idx' = upc.cur_idx
          /\ (IF player' # None THEN etime' ELSE 0) = upc.cur_pos]_vars

\* C24: a set_output that succeeds is atomic to observers: every record the
\* call persists for the playlist between its start and its return carries
\* the track index and the position of before the call, never a value in
\* between such as position 0 of the stopped engine.
C24_RestartPersistsNoIntermediate ==
    [][(OutReturnStep /\ _aout_mode' = upc.mode /\ upc.cur_pl # None) =>
          \A f \in upc.wrote \cup OutWrites([w |-> [primary |-> primary']]) :
              LET disk == ReadJson(f)
              IN  /\ disk.ok
                  /\ Get(disk.v.items, "track_index", NullV) = Num(upc.cur_idx)
                  /\ Get(disk.v.items, "position", NullV) = Num(upc.cur_pos)]_vars

\* C25: when the rebuild of the engine inside set_output fails, at whatever
\* step, the output mode is the previous one again and playback is intact:
\* the engine handle, the playlist, idx, the position and the options the
\* engine instance runs with are those of before the call.
C25_FailedRestartRollsBack ==
    [][(OutReturnStep /\ obs'.caught # "ok") =>
          /\ _aout_mode' = upc.prev
          /\ _instance' = upc.pre._instance
          /\ player' = upc.pre.player
          /\ _pl_path' = upc.cur_pl
          /\ playlist' = upc.cur_tracks
          /\ idx' = upc.cur_idx
          /\ (IF player' # None THEN etime' ELSE 0) = upc.cur_pos]_vars

(***************************************************************************)
(* Claims about tick, close, the end-of-track callback, play and pause.    *)
(***************************************************************************)
\* this step is a tick() that has a position to sample and no advance to
\* make
TickSample ==
    /\ obs'.op = "tick" /\ obs'.nops = obs.nops + 1
    /\ ~_next_pending /\ player # None /\ _pl_path # None

\* C26: tick() only samples the position and makes a soft mark: whatever the
\* position sampled, it leaves the debounce timer as it is and writes nothing
\* to disk on the UI thread.
C26_TickOnlySoftMarks ==
    [][TickSample =>
          /\ since_write' = since_write
          /\ UNCHANGED <<primary, bak, tmp>>]_vars

\* this step is a call of close()
CloseStep == obs'.op = "close" /\ obs'.nops = obs.nops + 1

\* C27: close() makes a final synchronous flush, stops the engine and leaves
\* the session closed; a second close() changes neither the session nor the
\* record on disk.
C27_CloseFlushesStopsIdempotent ==
    [][CloseStep =>
          /\ obs'.err = "ok"
          /\ _closed'
          /\ _pl_path # None =>
                 OnDisk([track_index |-> idx', position |-> position(Sess),
                         finished |-> _finished'], primary'[_pl_path])
          /\ ~eplaying'
          /\ _closed => UNCHANGED <<sessionVars, primary>>]_vars

\* this step is the engine reaching the end of the track it plays: the
\* end-of-track callback runs, on the engine's thread
EndCallback == obs'.nops = obs.nops /\ eplaying /\ ~eplaying'

\* C28: the end-of-track callback only posts a notification: it changes
\* neither idx, the finished set nor the engine handle, which change in calls
\* of the UI thread only; the advance is made later by a tick(); and while
\* ticks go on, every notification is followed by an advance.
C28_EndCallbackOnlyNotifies ==
    /\ [][EndCallback =>
             /\ _next_pending'
             /\ UNCHANGED <<_pl_path, playlist, idx, _finished, player,
                            _instance, _pending>>]_vars
    /\ [][obs'.nops = obs.nops => UNCHANGED <<idx, _finished, player>>]_vars
    /\ [][(_next_pending /\ ~_next_pending') =>
             /\ obs'.op = "tick" /\ obs'.nops = obs.nops + 1
             /\ PyIndex(playlist, idx) \in _finished']_vars
    /\ (_next_pending ~> (~_next_pending \/ _closed))

\* track a ended and a tick made the advance to c
C28_Witness ==
    /\ obs.op = "tick" /\ obs.nops = 2 /\ ~_next_pending
    /\ primary["A"] = NoFile
    /\ idx = 1 /\ player = "c" /\ _finished = {"a"} /\ eplaying

\* C29: pause() with a track open is forwarded to the engine and makes a
\* forced mark: the pending snapshot is the current state and the debounce
\* timer is reset; play() is forwarded to the engine and changes neither the
\* pending snapshot nor the timer.
C29_PauseMarksPlayDoesNot ==
    /\ [][(obs'.op = "pause" /\ obs'.nops = obs.nops + 1 /\ player # None) =>
             /\ _pending' = [set |-> TRUE, pl_path |-> _pl_path,
                             track_index |-> idx, position |-> etime,
                             finished |-> _finished]
             /\ since_write' = WRITE_INTERVAL
             /\ player \notin BadTracks => eplaying' = ~eplaying]_vars
    /\ [][(obs'.op = "play" /\ obs'.nops = obs.nops + 1) =>
             /\ UNCHANGED <<_pending, since_write>>
             /\ (player # None /\ player \notin BadTracks) => eplaying']_vars

\* pause() came less than an interval after the writer's latest write and
\* reset the timer
C29_Witness ==
    /\ obs.op = "pause" /\ obs.err = "ok" /\ player # None
    /\ obs.elapsed < WRITE_INTERVAL /\ since_write = WRITE_INTERVAL
    /\ _pending.set /\ _pending.position = etime /\ ~eplaying

\* an ensure_name call that ran to its end with no I/O failure
NameCallOver == fr.op = "ensure_name" /\ fr.pc = "done" /\ ~hobs.faulted

\* the display_name of the record load() finds for files (p, b)
StoredName(p, b) ==
    IF StoredRecord(p, b).type = "dict"
    THEN Get(StoredRecord(p, b).items, "display_name", NullV)
    ELSE NullV

\* C30: ensure_name(pl, name) with a name writes nothing when the stored
\* display_name already equals name; otherwise it returns having replaced the
\* primary file, through the temp file and the rename, by a record whose
\* display_name is name and whose track_index, position and finished are
\* those of the stored record. An ensure_name that directly follows one with
\* the same playlist and name does not write when the first one wrote.
C30_EnsureNameSetsOnce ==
    /\ (NameCallOver /\ fr.name # "") =>
         IF StoredName(hobs.pre, hobs.prebak) = Str(fr.name)
         THEN ~hobs.renamed /\ bak[fr.pl] = hobs.prebak
         ELSE /\ fr.outcome = "returned" /\ hobs.renamed
              /\ ReadJson(primary[fr.pl]).ok
              /\ ReadJson(primary[fr.pl]).v.type = "dict"
              /\ Get(ReadJson(primary[fr.pl]).v.items, "display_name", NullV)
                   = Str(fr.name)
              /\ \A k \in SavedFields :
                    /\ HasKey(ReadJson(primary[fr.pl]).v.items, k)
                         = HasKey(StoredRecord(hobs.pre, hobs.prebak).items, k)
                    /\ Get(ReadJson(primary[fr.pl]).v.items, k, NullV)
                         = Get(StoredRecord(hobs.pre, hobs.prebak).items, k, NullV)
    /\ (/\ NameCallOver
        /\ hobs.last.op = "ensure_name" /\ hobs.last.pl = fr.pl
        /\ hobs.last.name = fr.name /\ hobs.last.wrote)
          => ~hobs.renamed

(***************************************************************************)
(* The debounce at work over three calls: a playlist is opened, seek makes *)
(* a forced mark and flushes it, ticks make soft marks, and the writer     *)
(* thread wakes as time passes.                                            *)
(***************************************************************************)
DebounceOps == 3

DebounceNext ==
    \/ Budget(DebounceOps) /\ LoadPlaylist(WriterLists, {FALSE})
    \/ Budget(DebounceOps) /\ Seek({FALSE})
    \/ Budget(DebounceOps) /\ Tick({FALSE})
    \/ EngineOpened
    \/ EngineAdvance
    \/ Tock
    \/ WriterWake
    \/ WriterSave({FALSE})

SpecDebounce == WriterInit /\ [][DebounceNext]_vars

(***************************************************************************)
(* Claims about the pending slot: the writer loop, soft marks and flush.   *)
(***************************************************************************)
\* the writer's save returns and no mark was made since it took the snapshot
WroteLatest == SaveReturns /\ obs.covering

\* C31: once the background writer has written the pending snapshot the
\* pending slot is empty, and a wake of the writer that finds the latest mark
\* already written by it, no mark made since, starts no save.
C31_WrittenThenQuiet ==
    /\ [][WroteLatest => ~_pending'.set]_vars
    /\ [][(WakeStep /\ ~obs.dirty /\ obs.bgwrites >= 1 /\ ~_closed) =>
             wpc' # "save"]_vars

\* this step is a tick() that found the position within the jump threshold
\* of the last one sampled: the soft mark
SoftMarkStep == TickSample /\ Abs(etime - _last_tick_pos) <= JumpThreshold

\* C32: a soft mark puts the current snapshot in the (single) pending slot
\* and leaves the last-write time alone; and when only soft marks are waiting
\* the writer takes the snapshot to write it no sooner than a full interval
\* after its last write.
C32_SoftMarkWaitsInterval ==
    /\ [][SoftMarkStep =>
             /\ _pending' = [set |-> TRUE, pl_path |-> _pl_path,
                             track_index |-> idx, position |-> etime,
                             finished |-> _finished]
             /\ since_write' = since_write]_vars
    /\ [][(WakeStep /\ obs.batch = "soft" /\ wpc' = "save") =>
             obs.elapsed >= WRITE_INTERVAL]_vars

\* C33: the flush close() makes writes the pending snapshot if there is one
\* and nothing if the pending slot is empty, and leaves the slot empty.
C33_FlushTakesPending ==
    [][CloseStep =>
          /\ ~_pending'.set
          /\ _pending.set => OnDisk(_pending, primary'[_pending.pl_path])
          /\ ~_pending.set => UNCHANGED <<primary, bak, tmp>>]_vars

(***************************************************************************)
(* The backup path under two threads, checked under SpecRace.              *)
(***************************************************************************)
\* the steps of history.py that read the global BAK_PATH, and those that go
\* on with the path such a step took
ReadsGlobal == {"bak_exists", "bak_read", "bak_check", "bak_open"}
UsesTaken   == {"repair_open", "repair_write", "bak_write"}

\* the .bak file the call in frame f is about to test, read or write
BakInUse(f) == IF f.pc \in ReadsGlobal THEN BAK_PATH ELSE f.dst

OwnBak(f) == f.pc \in ReadsGlobal \cup UsesTaken => BakInUse(f) = f.pl

\* C34: whatever the UI thread and the writer thread do meanwhile, a call of
\* history.py for playlist P tests, reads and writes only P's own .bak file.
C34_BackupOfOwnPlaylist == OwnBak(fr) /\ OwnBak(wfr)

(***************************************************************************)
(* Opening a track at a resume position: _set_media polls the engine for   *)
(* the length of the media, sleeping between polls, before it seeks.       *)
(***************************************************************************)
\* range(10): the polls _set_media makes at most
MaxWaits == 10

\* the engine learns the length after at most this many sleeps of the
\* caller; an engine that needs more than MaxWaits has not learnt it when
\* the loop gives up
LengthAfter == 11

OpenOps == 2

\* the loop from its poll after k sleeps, with an engine that knows the
\* length once knownAt sleeps have passed: a known length breaks out,
\* otherwise one more sleep; set_time follows the loop in either case, and
\* the engine takes it when it knows the length by then
RECURSIVE PollLength(_, _)
PollLength(k, knownAt) ==
    IF k = MaxWaits \/ k >= knownAt
    THEN [waits |-> k, known |-> k >= knownAt]
    ELSE PollLength(k + 1, knownAt)

\* Mutant: the loop sleeps until the length is known, however long
WaitForLength_Unbounded(knownAt) == [waits |-> knownAt, known |-> TRUE]

WaitForLength(knownAt) == PollLength(0, knownAt)

\* load_playlist with the polling of its _set_media spelt out: the sleeps
\* are made only when the stored position is not zero and the track opens
OpenPolled(lists) ==
    \E l \in lists, knownAt \in 0..LengthAfter :
        \A P \in {WaitForLength(knownAt)} :
        \A st \in {load_playlist(Sess, l[1], l[2], P.known, FALSE)} :
            UICall("load_playlist",
                   [st EXCEPT !.obs.waits =
                       IF st.err = "ok" /\ st.obs.resume.pos # 0
                       THEN P.waits ELSE 0])

OpenInit == FilesInit({NoFile, AtLast, Indexed(0), Indexed(1)}, {NoFile}) /\ PlayerInit

OpenNext ==
    \/ Budget(OpenOps) /\ OpenPolled(NavLists)
    \/ Budget(OpenOps) /\ Tick({FALSE})
    \/ EngineOpened
    \/ EngineAdvance

SpecOpen == OpenInit /\ [][OpenNext]_vars

OpenStep == obs'.nops = obs.nops + 1 /\ obs'.op = "load_playlist"

\* C35: a load_playlist that opens a track at a resume position makes at most
\* MaxWaits sleeps while it polls for the length, then seeks and returns: the
\* call ends with the track opened whether or not the length became known,
\* the seek taken exactly when it did, and with no resume position it makes
\* no sleep at all
C35_BoundedLengthWait ==
    [][OpenStep =>
          /\ obs'.waits <= MaxWaits
          /\ obs'.err = "ok" =>
                /\ player' = PyIndex(playlist', idx')
                /\ obs'.resume.pos = 0 => obs'.waits = 0
                /\ (obs'.resume.pos # 0 /\ obs'.resume.took)
                       => etime' = Min(obs'.resume.pos, MaxPos)
                /\ (obs'.resume.pos # 0 /\ ~obs'.resume.took /\ player' \notin BadTracks)
                       => obs'.waits = MaxWaits /\ etime' = 0]_vars

\* C35 witness: a load_playlist returned after MaxWaits sleeps with the
\* length of an openable track still unknown
C35_GaveUpWaiting ==
    /\ obs.op = "load_playlist" /\ obs.err = "ok"
    /\ obs.waits = MaxWaits /\ obs.resume.pos # 0 /\ ~obs.resume.took
    /\ player # None /\ player \notin BadTracks

(* The advance at the end of a track, and the finished set, under SpecNav. *)
\* the engine is at the end of the track it has open, which it played out
AtEnd == player # None /\ eseekable /\ ~eplaying /\ etime = MaxPos

TickStep == obs'.nops = obs.nops + 1 /\ obs'.op = "tick"

\* C36: the advance of a tick goes past the track that ended only, and once:
\* a tick leaves no end notification pending, and a tick that finds another
\* track opened since the notification (by next_track, prev_track or
\* load_playlist) does not move the index, open a track or add to finished
C36_AdvancePastEndedOnly ==
    /\ [][TickStep => ~_next_pending']_vars
    /\ [][(TickStep /\ ~AtEnd) =>
             idx' = idx /\ player' = player /\ _finished' = _finished]_vars

(***************************************************************************)
(* A whole session: every call the UI makes of the player, before and      *)
(* after a playlist is opened, with the engine and the writer thread.      *)
(***************************************************************************)
SessionOps == 2

\* flush_history() called by the UI (closeEvent, a playlist renamed)
Flush == UICall("flush_history", flush_history(Sess, FALSE))

SessionInit == FilesInit({NoFile, AtLast}, {NoFile}) /\ PlayerInit

SessionNext ==
    \/ Budget(SessionOps) /\ LoadPlaylist(NavLists, {FALSE})
    \/ Budget(SessionOps) /\ Play
    \/ Budget(SessionOps) /\ Pause
    \/ Budget(SessionOps) /\ Seek({FALSE})
    \/ Budget(SessionOps) /\ Tick({FALSE})
    \/ Budget(SessionOps) /\ NextTrack
    \/ Budget(SessionOps) /\ PrevTrack
    \/ Budget(SessionOps) /\ Flush
    \/ Budget(SessionOps) /\ Close({FALSE})
    \/ EngineOpened
    \/ EngineAdvance
    \/ EngineEnd
    \/ Tock
    \/ WriterWake
    \/ WriterSave({FALSE})

SpecSession == SessionInit /\ [][SessionNext]_vars

\* the UI made the call named
Called(name) == obs'.nops = obs.nops + 1 /\ obs'.op = name

KeepFinished == {"play", "pause", "seek", "prev_track", "flush_history", "close"}

\* finished with the track that is current added
WithCurrent == _finished \cup {PyIndex(playlist, idx)}

FinishedGrows ==
    /\ [][~Called("load_playlist") => _finished \subseteq _finished']_vars
    /\ [][(\E op \in KeepFinished : Called(op)) => _finished' = _finished]_vars
    /\ [][(Called("next_track") /\ _pl_path # None) => _finished' = WithCurrent]_vars

\* C37 as stated: with a playlist open the finished set only grows; play,
\* pause, seek, tick, prev_track, flush and close leave it as it is and
\* next_track adds the locator of the current track, nothing else
C37_FinishedAsStated ==
    /\ FinishedGrows
    /\ [][Called("tick") => _finished' = _finished]_vars

\* C37 amended: as stated, except that a tick leaves the set as it is only
\* when no end-of-track notification is pending; the tick that finds one
\* adds the locator of the current track, as the next_track it calls does
C37_FinishedGrowsByAdvance ==
    /\ FinishedGrows
    /\ [][(Called("tick") /\ ~_next_pending) => _finished' = _finished]_vars
    /\ [][(Called("tick") /\ _next_pending /\ _pl_path # None)
              => _finished' = WithCurrent]_vars

\* C37 witness: a tick advanced from the first track, which is now finished
C37_TickFinishedFirst ==
    /\ obs.op = "tick" /\ obs.err = "ok"
    /\ _finished = {"a"} /\ idx = 1 /\ ~_next_pending

\* the snapshots on their way to history.save: the pending one, which the
\* writer takes, and the one the writer has taken
HasPath(snap) == snap.set => snap.pl_path # None

\* C38: every snapshot the writer loop can pass to history.save, pending or
\* taken, carries a playlist path; and for as long as no playlist has been
\* opened no step, a call of the UI or a round of the writer, changes a
\* primary, backup or temp file
C38_NoWriteBeforeLoad ==
    /\ [](HasPath(_pending) /\ (wpc = "save" => wsnap.set /\ HasPath(wsnap)))
    /\ [][(_pl_path = None /\ _pl_path' = None)
              => UNCHANGED <<primary, bak, tmp, BAK_PATH>>]_vars

\* C38 witness: with no playlist opened the UI made two calls, the last
\* close(), the writer has ended, and the stored record is as it was
C38_ClosedUnopened ==
    /\ _pl_path = None /\ obs.nops >= 2 /\ obs.op = "close" /\ _closed
    /\ wpc = "exit" /\ ~_pending.set
    /\ primary["A"] = AtLast /\ bak["A"] = NoFile /\ tmp["A"] = NoFile

(* The writer thread once close() has returned, under LiveWriter. *)
WriterEnded == wpc \in {"exit", "dead"}

\* C39: once close() has returned the writer thread comes to its end, and
\* from then on no step replaces the record close's flush left in a primary
\* file: a write of the writer that is under way or begins then carries a
\* snapshot taken before the flush
C39_CloseHasLastWord ==
    /\ _closed ~> WriterEnded
    /\ [][_closed => primary' = primary]_vars
====
